---------------------------- MODULE Spec2Model ----------------------------
(***************************************************************************)
(* Model of qibo's distributed circuit (qibo/tensorflow/distcircuit.py):   *)
(* DeviceQueues (partition, queue transformer, wave builder) and           *)
(* TensorflowDistributedCircuit (add, planning, parallel dispatch, global  *)
(* swaps, special gates).                                                  *)
(*                                                                         *)
(* Qubit ids are 0-based as in the source.  Sequences are 1-based, so the  *)
(* element with Python index k is at position k + 1.  State vectors are    *)
(* sequences of amplitude values; the gates of the model are permutation   *)
(* gates, so an amplitude value is a natural number that names where the   *)
(* amplitude came from (0 is the zero amplitude).                          *)
(***************************************************************************)
EXTENDS Integers, Sequences, FiniteSets, TLC

VARIABLES
    nqubits,            \* circuit.nqubits
    calc_devices,       \* circuit.calc_devices: the counts of the accelerators dict, in order
    queue,              \* circuit.queue: the gate objects, mutated in place by planning
    has_queues,         \* circuit.queues is not None
    global_qubits_set,  \* queues.global_qubits_set
    swaps_list,         \* queues.swaps_list
    dqueues,            \* queues.queues: the waves
    special_queue,      \* queues.special_queue
    pieces,             \* circuit.pieces (<<>> while None)
    pc,                 \* position inside execute ("idle" between calls)
    tr_queue,           \* _transform's queue argument (accepted gates)
    remaining_queue,    \* _transform's remaining_queue argument
    counter,            \* _transform's counter argument
    wave,               \* index of the wave _execute's loop is at
    special_pos,        \* number of entries consumed from iter(special_queue)
    jobs,               \* the wave's _device_job threads, one per device
    initial_state,      \* the initial_state argument of the running execute
    outcome,            \* what the last finished call did
    ghost               \* history kept for the properties only

vars == <<nqubits, calc_devices, queue, has_queues, global_qubits_set,
          swaps_list, dqueues, special_queue, pieces, pc, tr_queue,
          remaining_queue, counter, wave, special_pos, jobs, initial_state,
          outcome, ghost>>

(***************************************************************************)
(* Bounds of the model.                                                    *)
(***************************************************************************)
MaxGates == 3
MaxExecGates == 2
MaxRuns == 1
MaxRerunGates == 2
MaxReruns == 2
MaxGlobalBits == 4

(***************************************************************************)
(* Generic helpers.                                                        *)
(***************************************************************************)
Range(s) == {s[k] : k \in 1..Len(s)}

RECURSIVE Pow2(_)
Pow2(n) == IF n = 0 THEN 1 ELSE 2 * Pow2(n - 1)

RECURSIVE Sum(_)
Sum(s) == IF s = <<>> THEN 0 ELSE Head(s) + Sum(Tail(s))

RECURSIVE Log2(_)
Log2(n) == IF n <= 1 THEN 0 ELSE 1 + Log2(n \div 2)

Min2(a, b) == IF a < b THEN a ELSE b
Max2(a, b) == IF a < b THEN b ELSE a

\* sorted(S) for a set of integers
RECURSIVE Sorted(_)
Sorted(S) ==
    IF S = {} THEN <<>>
    ELSE LET m == CHOOSE x \in S : \A y \in S : x <= y
         IN  <<m>> \o Sorted(S \ {m})

\* list.index(x), 0-based
IndexOf(s, x) == (CHOOSE k \in 1..Len(s) : s[k] = x /\ \A j \in 1..(k - 1) : s[j] # x) - 1

Reverse(s) == [k \in 1..Len(s) |-> s[Len(s) + 1 - k]]

\* every ordering of a finite set, as sequences
Orderings(S) ==
    {s \in [1..Cardinality(S) -> S] : \A a, b \in 1..Cardinality(S) : a # b => s[a] # s[b]}

(***************************************************************************)
(* Gates.  A gate object has a kind, ordered target qubits, control        *)
(* qubits, the position it has in circuit.queue (id, 0 for a SWAP that     *)
(* planning created) and, for a special gate, the swap_reset attribute.    *)
(***************************************************************************)
Gate(kind, t, c) == [kind |-> kind, t |-> t, c |-> c, id |-> 0, swap_reset |-> <<>>]

\* gate_module.SWAP(q, qs)
SWAP(a, b) == Gate("SWAP", <<a, b>>, <<>>)

\* gate.is_special_gate: CallbackGate and Flatten
is_special_gate(g) == g.kind \in {"Callback", "Flatten"}

\* gate.qubits: controls and targets
Qubits(g) == Range(g.t) \cup Range(g.c)

\* skipped_gate.commutes(gate): no target of either is a qubit of the other;
\* a special gate commutes with nothing
Commutes(a, b) ==
    /\ ~is_special_gate(a)
    /\ ~is_special_gate(b)
    /\ Range(a.t) \cap Qubits(b) = {}
    /\ Range(b.t) \cap Qubits(a) = {}

\* a relabelling that forgets the control qubits
RelabelTargetsOnly(g, qubit_map) ==
    LET m(q) == IF q \in DOMAIN qubit_map THEN qubit_map[q] ELSE q
    IN  [g EXCEPT !.t = [k \in 1..Len(g.t) |-> m(g.t[k])]]

\* gate.set_targets_and_controls through qubit_map (a function on a set of qubits)
Relabel(g, qubit_map) ==
    LET m(q) == IF q \in DOMAIN qubit_map THEN qubit_map[q] ELSE q
    IN  [g EXCEPT !.t = [k \in 1..Len(g.t) |-> m(g.t[k])],
                  !.c = [k \in 1..Len(g.c) |-> m(g.c[k])]]

(***************************************************************************)
(* Shapes (TensorflowDistributedCircuit.__init__).                         *)
(***************************************************************************)
ndevices == Sum(calc_devices)
nglobal == Log2(ndevices)
nlocal == nqubits - nglobal
AllQubits == 0..(nqubits - 1)

(***************************************************************************)
(* Qubit partition (DeviceQueues.__init__).  The lists are set when the    *)
(* DeviceQueues object is built and nothing changes them afterwards.       *)
(***************************************************************************)
GlobalList(G) == Sorted(G)
LocalList(G) == Sorted(AllQubits \ G)
global_qubits_list == GlobalList(global_qubits_set)
local_qubits == LocalList(global_qubits_set)

\* DeviceQueues.reduction_number: index of the first global id above q, else their number
ReductionNumber(glist, q) ==
    IF \E k \in 1..Len(glist) : glist[k] > q
    THEN (CHOOSE k \in 1..Len(glist) : glist[k] > q /\ \A j \in 1..(k - 1) : glist[j] <= q) - 1
    ELSE Len(glist)

reduction_number(q) == ReductionNumber(global_qubits_list, q)
global_qubits_reduced(q) == IndexOf(global_qubits_list, q)
local_qubits_reduced(q) == q - reduction_number(q)

\* DeviceQueues._ids: consecutive ranges of piece indices, one list per device
RECURSIVE IdsFrom(_, _)
IdsFrom(devs, start) ==
    IF devs = <<>> THEN <<>>
    ELSE <<[k \in 1..Head(devs) |-> start + k - 1]>> \o IdsFrom(Tail(devs), start + Head(devs))

\* a generator that forgets to advance start
IdsNoAdvance(devs) == [d \in 1..Len(devs) |-> [k \in 1..devs[d] |-> k - 1]]

Ids(devs) == IdsFrom(devs, 0)

device_to_ids == Ids(calc_devices)

\* transpose_order and reverse_transpose_order (global_qubits setter)
transpose_order == global_qubits_list \o local_qubits
reverse_transpose_order ==
    [q1 \in 1..nqubits |-> IndexOf(transpose_order, q1 - 1)]

(***************************************************************************)
(* Amplitude primitives and gate kernels.  A vector over n qubits has      *)
(* 2^n entries; the entry of address a is at position a + 1 and qubit 0 is *)
(* the most significant bit of the address.                                *)
(***************************************************************************)
Bit(a, q, n) == (a \div Pow2(n - 1 - q)) % 2
FlipBit(a, q, n) == IF Bit(a, q, n) = 1 THEN a - Pow2(n - 1 - q) ELSE a + Pow2(n - 1 - q)
SwapBits(a, q1, q2, n) ==
    IF Bit(a, q1, n) = Bit(a, q2, n) THEN a ELSE FlipBit(FlipBit(a, q1, n), q2, n)

\* the address whose amplitude a gate moves to address a
GateSource(g, a, n) ==
    IF \E k \in 1..Len(g.c) : Bit(a, g.c[k], n) = 0 THEN a
    ELSE CASE g.kind = "X" -> FlipBit(a, g.t[1], n)
           [] g.kind = "XX" -> FlipBit(FlipBit(a, g.t[1], n), g.t[2], n)
           [] g.kind = "SWAP" -> SwapBits(a, g.t[1], g.t[2], n)
           [] OTHER -> a

\* gate(state) for a gate on n qubits
ApplyGate(g, state, n) == [a1 \in 1..Pow2(n) |-> state[GateSource(g, a1 - 1, n) + 1]]

RECURSIVE ApplyGates(_, _, _)
ApplyGates(gs, state, n) ==
    IF gs = <<>> THEN state ELSE ApplyGates(Tail(gs), ApplyGate(Head(gs), state, n), n)

\* op.transpose_state: the tensor of the vector with its axes permuted by order
TransposeSource(a, order, n) ==
    LET RECURSIVE Acc(_)
        Acc(k) == IF k = n THEN 0
                  ELSE Bit(a, k, n) * Pow2(n - 1 - order[k + 1]) + Acc(k + 1)
    IN  Acc(0)

TransposeState(vec, order, n) ==
    [a1 \in 1..Pow2(n) |-> vec[TransposeSource(a1 - 1, order, n) + 1]]

\* the pieces laid end to end, and a vector cut into D pieces
Concat(ps) ==
    LET P == Pow2(nlocal)
    IN  [a1 \in 1..(Len(ps) * P) |-> ps[((a1 - 1) \div P) + 1][((a1 - 1) % P) + 1]]

Chunks(vec) ==
    LET P == Pow2(nlocal)
    IN  [i1 \in 1..ndevices |-> [j1 \in 1..P |-> vec[(i1 - 1) * P + j1]]]

\* op.swap_pieces(piece_i, piece_{i+t}, local_eff, nlocal): the amplitudes of piece i
\* with the local bit set change places with those of piece i+t with it clear
SwapPiecesLow(lo, hi, local_eff, n) ==
    [j1 \in 1..Pow2(n) |->
        IF Bit(j1 - 1, local_eff, n) = 1 THEN hi[FlipBit(j1 - 1, local_eff, n) + 1] ELSE lo[j1]]

SwapPiecesHigh(lo, hi, local_eff, n) ==
    [j1 \in 1..Pow2(n) |->
        IF Bit(j1 - 1, local_eff, n) = 0 THEN lo[FlipBit(j1 - 1, local_eff, n) + 1] ELSE hi[j1]]

(***************************************************************************)
(* Queue transformer (DeviceQueues.count, _transform, transform).          *)
(***************************************************************************)
\* DeviceQueues.count
Count(q, n) ==
    [x \in 0..(n - 1) |-> Cardinality({k \in 1..Len(q) : x \in Range(q[k].t)})]

\* counter.argsort(): the ids by ascending counter.  The call uses numpy's default
\* kind (quicksort), which does not fix the order of ids with equal counters, so
\* every order of them is a possible result
Argsorts(cnt) ==
    {p \in Orderings(DOMAIN cnt) : \A k \in 1..(Len(p) - 1) : cnt[p[k]] <= cnt[p[k + 1]]}

\* the one result a stable sort gives: equal counters in ascending id order
RECURSIVE StableArgsortFrom(_, _)
StableArgsortFrom(cnt, S) ==
    IF S = {} THEN <<>>
    ELSE LET m == CHOOSE x \in S : \A y \in S : cnt[x] < cnt[y] \/ (cnt[x] = cnt[y] /\ x <= y)
         IN  <<m>> \o StableArgsortFrom(cnt, S \ {m})

StableArgsort(cnt) == StableArgsortFrom(cnt, DOMAIN cnt)

\* a variant that accepts no gate with a global target, SWAPs included
AcceptLocalOnly(gate, skipped, G) ==
    /\ Range(gate.t) \cap G = {}
    /\ \A k \in 1..Len(skipped) : Commutes(skipped[k], gate)

\* a variant that does not ask the skipped gates
AcceptIgnoringSkipped(gate, skipped, G) ==
    LET global_targets == Range(gate.t) \cap G
    IN  (gate.kind = "SWAP" /\ Cardinality(global_targets) = 1) \/ global_targets = {}

\* a variant that accepts a SWAP whatever the number of its global targets
AcceptAnySwap(gate, skipped, G) ==
    LET global_targets == Range(gate.t) \cap G
    IN  /\ gate.kind = "SWAP" \/ global_targets = {}
        /\ \A k \in 1..Len(skipped) : Commutes(skipped[k], gate)

\* lines 157-163: the gate has no global target, or is a SWAP with exactly one, and
\* commutes with every gate skipped before it in this pass
Accept(gate, skipped, G) ==
    LET global_targets == Range(gate.t) \cap G
    IN  /\ (gate.kind = "SWAP" /\ Cardinality(global_targets) = 1) \/ global_targets = {}
        /\ \A k \in 1..Len(skipped) : Commutes(skipped[k], gate)

\* lines 166-167
Decrement(cnt, gate) == [x \in DOMAIN cnt |-> IF x \in Range(gate.t) THEN cnt[x] - 1 ELSE cnt[x]]

\* a walk that leaves the gates untagged
TagNever(gate, sw) == gate

\* a walk that tags a special gate only while it carries no pairs
TagWhileEmpty(gate, sw) ==
    IF is_special_gate(gate) /\ gate.swap_reset = <<>>
    THEN [gate EXCEPT !.swap_reset = sw]
    ELSE gate

\* lines 154-155: a special gate gets a copy of swaps_list each time a walk visits it
Tag(gate, sw) ==
    IF is_special_gate(gate) THEN [gate EXCEPT !.swap_reset = sw] ELSE gate

\* lines 152-169: one walk over remaining_queue
RECURSIVE PassLoop(_, _, _, _, _, _)
PassLoop(rem, out, new_remaining_queue, cnt, sw, G) ==
    IF rem = <<>> THEN [queue |-> out, remaining |-> new_remaining_queue, counter |-> cnt]
    ELSE LET gate == Tag(Head(rem), sw)
         IN  IF Accept(gate, new_remaining_queue, G)
             THEN PassLoop(Tail(rem), Append(out, gate), new_remaining_queue,
                           Decrement(cnt, gate), sw, G)
             ELSE PassLoop(Tail(rem), out, Append(new_remaining_queue, gate), cnt, sw, G)

\* a generator that leaves out the global qubits only
AvailableSwapsAnyLocal(sorted, G, target_set) ==
    SelectSeq(sorted, LAMBDA q : q \notin G)

\* lines 182-183: the ids the generator can yield, in the order it yields them
AvailableSwaps(sorted, G, target_set) ==
    SelectSeq(sorted, LAMBDA q : q \notin (G \cup target_set))

\* a swap that leaves the counters where they are
KeepCounters(cnt, q, qs) == cnt

\* line 195: counter[q], counter[qs] = counter[qs], counter[q]
ExchangeCounters(cnt, q, qs) == [cnt EXCEPT ![q] = cnt[qs], ![qs] = cnt[q]]

\* a loop that takes the first candidate for every global target
RECURSIVE SwapLoopSamePartner(_, _, _, _, _, _)
SwapLoopSamePartner(order, avail, out, sw, cnt, qubit_map) ==
    IF order = <<>>
    THEN [queue |-> out, swaps |-> sw, counter |-> cnt, qubit_map |-> qubit_map, ok |-> TRUE]
    ELSE IF avail = <<>>
    THEN [queue |-> out, swaps |-> sw, counter |-> cnt, qubit_map |-> qubit_map, ok |-> FALSE]
    ELSE LET q == Head(order)
             qs == Head(avail)
         IN  SwapLoopSamePartner(Tail(order), avail,
                      Append(out, SWAP(q, qs)),
                      Append(sw, <<Min2(q, qs), Max2(q, qs)>>),
                      ExchangeCounters(cnt, q, qs),
                      [x \in (DOMAIN qubit_map) \cup {q, qs} |->
                          IF x = q THEN qs ELSE IF x = qs THEN q ELSE qubit_map[x]])

\* lines 184-195: the swaps of one reconfiguration, for the global targets taken in
\* the given order; stops where next(available_swaps) finds nothing
RECURSIVE SwapLoop(_, _, _, _, _, _)
SwapLoop(order, avail, out, sw, cnt, qubit_map) ==
    IF order = <<>>
    THEN [queue |-> out, swaps |-> sw, counter |-> cnt, qubit_map |-> qubit_map, ok |-> TRUE]
    ELSE IF avail = <<>>
    THEN [queue |-> out, swaps |-> sw, counter |-> cnt, qubit_map |-> qubit_map, ok |-> FALSE]
    ELSE LET q == Head(order)
             qs == Head(avail)
         IN  SwapLoop(Tail(order), Tail(avail),
                      Append(out, SWAP(q, qs)),
                      Append(sw, <<Min2(q, qs), Max2(q, qs)>>),
                      ExchangeCounters(cnt, q, qs),
                      [x \in (DOMAIN qubit_map) \cup {q, qs} |->
                          IF x = q THEN qs ELSE IF x = qs THEN q ELSE qubit_map[x]])

\* undo in recording order
UndoSwapsForward(sw) == [k \in 1..Len(sw) |-> SWAP(sw[k][1], sw[k][2])]

\* lines 227-228: the SWAPs that undo swaps_list, last first
UndoSwaps(sw) == [k \in 1..Len(sw) |-> SWAP(sw[Len(sw) + 1 - k][1], sw[Len(sw) + 1 - k][2])]

\* the gate objects of circuit.queue after planning changed some of them
UpdateQueue(q, gs) ==
    [k \in 1..Len(q) |->
        IF \E j \in 1..Len(gs) : gs[j].id = k
        THEN gs[CHOOSE j \in 1..Len(gs) : gs[j].id = k]
        ELSE q[k]]

(***************************************************************************)
(* Wave builder (DeviceQueues._create_reduced_gate, create).               *)
(***************************************************************************)
\* a copy that keeps the global controls, remapped like the others
CreateReducedGateAllControls(gate, G) ==
    LET glist == GlobalList(G)
    IN  [kind |-> gate.kind,
         t |-> [k \in 1..Len(gate.t) |-> gate.t[k] - ReductionNumber(glist, gate.t[k])],
         c |-> [k \in 1..Len(gate.c) |-> gate.c[k] - ReductionNumber(glist, gate.c[k])],
         id |-> gate.id,
         swap_reset |-> gate.swap_reset,
         original_gate |-> gate]

\* _create_reduced_gate
CreateReducedGate(gate, G) ==
    LET glist == GlobalList(G)
        local_controls == SelectSeq(gate.c, LAMBDA q : q \notin G)
    IN  [kind |-> gate.kind,
         t |-> [k \in 1..Len(gate.t) |-> gate.t[k] - ReductionNumber(glist, gate.t[k])],
         c |-> [k \in 1..Len(local_controls) |->
                    local_controls[k] - ReductionNumber(glist, local_controls[k])],
         id |-> gate.id,
         swap_reset |-> gate.swap_reset,
         original_gate |-> gate]

\* the bit is counted from the wrong end
FlagLittleEndian(gate, i, G) ==
    \A control \in Range(gate.c) \cap G :
        LET ic == IndexOf(GlobalList(G), control)
        IN  (i \div Pow2(ic)) % 2 = 1

\* lines 272-281: whether piece i applies the gate
Flag(gate, i, G) ==
    \A control \in Range(gate.c) \cap G :
        LET ic == nglobal - IndexOf(GlobalList(G), control) - 1
        IN  (i \div Pow2(ic)) % 2 = 1

\* how many times the loops of lines 265 and 271 reach piece i
Visits(i) ==
    Cardinality({dk \in {<<d, k>> : d \in 1..Len(device_to_ids), k \in 1..ndevices} :
                    dk[2] <= Len(device_to_ids[dk[1]]) /\ device_to_ids[dk[1]][dk[2]] = i})

RECURSIVE AppendTimes(_, _, _)
AppendTimes(s, x, n) == IF n = 0 THEN s ELSE AppendTimes(Append(s, x), x, n - 1)

\* a builder that takes the first target as the local qubit
FirstTarget(gate, global_qubit) == gate.t[1]

\* lines 254-256: the target of the SWAP that is not the global one
LocalQubitOf(gate, global_qubit) ==
    IF gate.t[1] = global_qubit THEN gate.t[2] ELSE gate.t[1]

\* a builder that lets special steps in a row share one wave
SpecialWaveShared(qs) ==
    IF qs # <<>> /\ qs[Len(qs)] = <<>> THEN qs ELSE Append(qs, <<>>)

\* lines 242 and 259: self.queues.append([])
SpecialWave(qs) == Append(qs, <<>>)

\* a builder that opens a wave for every gate
OpensWaveAlways(qs) == TRUE

\* line 262: a non-special wave is opened when there is none or the last one is special
OpensWave(qs) == qs = <<>> \/ qs[Len(qs)] = <<>>

\* lines 239-283: create, stopping at the first gate it raises on
RECURSIVE CreateLoop(_, _, _, _, _)
CreateLoop(q, qs, sq, G, D) ==
    IF q = <<>> THEN [queues |-> qs, special_queue |-> sq, error |-> "none"]
    ELSE LET gate == Head(q)
             global_qubits == Range(gate.t) \cap G
         IN  IF gate.t = <<>>
             THEN CreateLoop(Tail(q), SpecialWave(qs), Append(sq, gate), G, D)
             ELSE IF global_qubits # {}
             THEN IF gate.kind # "SWAP"
                  THEN [queues |-> qs, special_queue |-> sq, error |-> "NonSwapOnGlobal"]
                  ELSE IF Cardinality(global_qubits) > 1
                  THEN [queues |-> qs, special_queue |-> sq, error |-> "GlobalGlobalSwap"]
                  ELSE LET global_qubit == CHOOSE x \in global_qubits : TRUE
                           local_qubit == LocalQubitOf(gate, global_qubit)
                       IN  CreateLoop(Tail(q), SpecialWave(qs),
                                      Append(sq, Gate("pair", <<global_qubit, local_qubit>>, <<>>)),
                                      G, D)
             ELSE LET opened == IF OpensWave(qs)
                                THEN Append(qs, [i1 \in 1..D |-> <<>>])
                                ELSE qs
                      calc_gate == CreateReducedGate(gate, G)
                      last == [i1 \in 1..D |->
                                  IF Flag(gate, i1 - 1, G)
                                  THEN AppendTimes(opened[Len(opened)][i1], calc_gate,
                                                   Visits(i1 - 1))
                                  ELSE opened[Len(opened)][i1]]
                  IN  CreateLoop(Tail(q), [opened EXCEPT ![Len(opened)] = last], sq, G, D)

(***************************************************************************)
(* Execution primitives (_split, _merge, _swap, _revert_swaps,             *)
(* _device_execute).                                                       *)
(***************************************************************************)
\* _split: reshape to device_shape, transpose by transpose_order
Split(state) == Chunks(TransposeState(state, transpose_order, nqubits))

\* _merge: concat on axis 0, concat on axis 1, or the transpose op
Merge(ps) ==
    IF global_qubits_list = [k \in 1..nglobal |-> k - 1]
    THEN Concat(ps)
    ELSE IF global_qubits_list = [k \in 1..nglobal |-> nlocal + k - 1]
    THEN [a1 \in 1..Pow2(nqubits) |-> ps[((a1 - 1) % ndevices) + 1][((a1 - 1) \div ndevices) + 1]]
    ELSE TransposeState(Concat(ps), reverse_transpose_order, nqubits)

\* an index that leaves no room for bit m
PairIndexDense(g, m) == g

\* line 485: i = ((g >> m) << (m + 1)) + (g & (t - 1))
PairIndex(g, m) == ((g \div Pow2(m)) * Pow2(m + 1)) + (g % Pow2(m))

\* a turn that writes the first piece of the pair only
SwapPairLowOnly(ps, g, m, local_eff) ==
    LET t == Pow2(m)
        i == PairIndex(g, m)
    IN  [ps EXCEPT ![i + 1] = SwapPiecesLow(ps[i + 1], ps[i + t + 1], local_eff, nlocal)]

\* lines 485-489: one turn of _swap's loop
SwapPair(ps, g, m, local_eff) ==
    LET t == Pow2(m)
        i == PairIndex(g, m)
    IN  [ps EXCEPT ![i + 1] = SwapPiecesLow(ps[i + 1], ps[i + t + 1], local_eff, nlocal),
                   ![i + t + 1] = SwapPiecesHigh(ps[i + 1], ps[i + t + 1], local_eff, nlocal)]

RECURSIVE SwapLoopPieces(_, _, _, _)
SwapLoopPieces(ps, g, m, local_eff) ==
    IF g = ndevices \div 2 THEN ps
    ELSE SwapLoopPieces(SwapPair(ps, g, m, local_eff), g + 1, m, local_eff)

\* _swap: defined when global_qubit is global and local_qubit is local
CanSwap(global_qubit, local_qubit) ==
    global_qubit \in global_qubits_set /\ local_qubit \in AllQubits \ global_qubits_set

\* the piece bit of the global qubit counted from the wrong end
SwapLittleEndian(ps, global_qubit, local_qubit) ==
    SwapLoopPieces(ps, 0, global_qubits_reduced(global_qubit),
                   local_qubits_reduced(local_qubit))

\* _swap: lines 481-489
Swap(ps, global_qubit, local_qubit) ==
    SwapLoopPieces(ps, 0, nglobal - global_qubits_reduced(global_qubit) - 1,
                   local_qubits_reduced(local_qubit))

\* _revert_swaps over a list of pairs
CanRevertSwaps(swap_pairs) ==
    \A k \in 1..Len(swap_pairs) :
        LET q1 == swap_pairs[k][1]
            q2 == swap_pairs[k][2]
        IN  IF q1 \notin global_qubits_set THEN CanSwap(q2, q1) ELSE CanSwap(q1, q2)

RECURSIVE RevertSwaps(_, _)
RevertSwaps(ps, swap_pairs) ==
    IF swap_pairs = <<>> THEN ps
    ELSE LET q1 == Head(swap_pairs)[1]
             q2 == Head(swap_pairs)[2]
         IN  RevertSwaps(IF q1 \notin global_qubits_set THEN Swap(ps, q2, q1)
                         ELSE Swap(ps, q1, q2),
                         Tail(swap_pairs))

\* _device_execute: the gates of the list, in order, on one piece
DeviceExecute(state, gates) == ApplyGates(gates, state, nlocal)

\* lines 502-515: _special_gate_execute on the pieces; the callback is handed the
\* merged vector and a Flatten gate replaces it
FlattenState == [a1 \in 1..Pow2(nqubits) |-> 100 + a1]

\* whether every lookup of the special step finds its key
CanSpecialGateExecute(gate) ==
    IF gate.kind = "pair" THEN CanSwap(gate.t[1], gate.t[2])
    ELSE CanRevertSwaps(gate.swap_reset)

\* a special step that stops after the callback or the split
SpecialGateNoRedo(ps, gate) ==
    IF gate.kind = "pair" THEN Swap(ps, gate.t[1], gate.t[2])
    ELSE LET reverted == RevertSwaps(ps, Reverse(gate.swap_reset))
         IN  IF gate.kind = "Callback" THEN reverted ELSE Split(FlattenState)

\* _special_gate_execute: a global swap, or revert the snapshot's swaps last first,
\* merge, call the gate (a Flatten's result is split back), redo the swaps
SpecialGateExecute(ps, gate) ==
    IF gate.kind = "pair" THEN Swap(ps, gate.t[1], gate.t[2])
    ELSE LET reverted == RevertSwaps(ps, Reverse(gate.swap_reset))
             after == IF gate.kind = "Callback" THEN reverted ELSE Split(FlattenState)
         IN  RevertSwaps(after, gate.swap_reset)

\* what the callback of a special step is called with
CallbackArgument(ps, gate) == Merge(RevertSwaps(ps, Reverse(gate.swap_reset)))

(***************************************************************************)
(* Circuits of the model: (nqubits, accelerators) and the gates a user     *)
(* adds.                                                                   *)
(***************************************************************************)
Configs ==
    { [n |-> 2, devs |-> <<1, 1>>],
      [n |-> 3, devs |-> <<1, 1>>],
      [n |-> 3, devs |-> <<1, 3>>],
      [n |-> 4, devs |-> <<2, 2>>] }

Alphabet ==
    {Gate("X", <<t>>, <<>>) : t \in AllQubits}
    \cup {Gate("X", <<ct[2]>>, <<ct[1]>>) : ct \in {x \in AllQubits \X AllQubits : x[1] # x[2]}}
    \cup {Gate("X", <<ct[3]>>, <<ct[1], ct[2]>>) :
            ct \in {x \in AllQubits \X AllQubits \X AllQubits :
                        nglobal > 1 /\ x[1] < x[2] /\ x[3] \notin {x[1], x[2]}}}
    \cup {SWAP(ab[1], ab[2]) : ab \in {x \in AllQubits \X AllQubits : x[1] < x[2]}}
    \cup {Gate("XX", <<ab[1], ab[2]>>, <<>>) : ab \in {x \in AllQubits \X AllQubits : x[1] < x[2]}}
    \cup {Gate("Callback", <<>>, <<>>)}

\* the gates add lets through
Admissible == {gate \in Alphabet : nqubits - Len(gate.t) >= nglobal}

\* a measurement and a variational layer over all the qubits of the circuit
SurfaceAlphabet ==
    Alphabet \cup {Gate("M", [k \in 1..nqubits |-> k - 1], <<>>),
                   Gate("VariationalLayer", [k \in 1..nqubits |-> k - 1], <<>>)}

\* the longest queue the model builds for the circuit: planning alone, executed, and
\* executed more than once
PlanBudget == MaxGates + 3 - nqubits
ExecBudget == MaxExecGates + 3 - nqubits
RerunBudget == MaxRerunGates + 2 - nqubits

SymbolicState == [a1 \in 1..Pow2(nqubits) |-> a1]

NoGhost ==
    [runs |-> 0, max_runs |-> MaxRuns, transformed_queue |-> <<>>, plan_input |-> <<>>,
     callback_state |-> <<>>, final_state |-> <<>>, wave_start |-> <<>>,
     plan_errors |-> 0, reconfigurations |-> 0]

Constructed(g) ==
    /\ \E cfg \in Configs : nqubits = cfg.n /\ calc_devices = cfg.devs
    /\ queue = <<>>
    /\ has_queues = FALSE
    /\ global_qubits_set = {}
    /\ swaps_list = <<>>
    /\ dqueues = <<>>
    /\ special_queue = <<>>
    /\ pieces = <<>>
    /\ pc = "idle"
    /\ tr_queue = <<>>
    /\ remaining_queue = <<>>
    /\ counter = <<>>
    /\ wave = 0
    /\ special_pos = 0
    /\ jobs = <<>>
    /\ initial_state = "none"
    /\ outcome = "ok"
    /\ ghost = g

Init == Constructed(NoGhost)

\* the same circuits, in behaviours that call execute more than once
InitRerun == Constructed([NoGhost EXCEPT !.max_runs = MaxReruns])

(***************************************************************************)
(* add (TensorflowDistributedCircuit._add).                                *)
(***************************************************************************)
\* a test that exempts no gate
InsufficientNoExemption(gate) ==
    nqubits - Len(gate.t) < nglobal

\* lines 409-414: whether _add raises
InsufficientQubits(gate) ==
    /\ gate.kind # "VariationalLayer"
    /\ nqubits - Len(gate.t) < nglobal
    /\ gate.kind # "M"

\* super()._add: the gate goes to the end of the circuit's queue
BaseAdd(q, gate) == Append(q, [gate EXCEPT !.id = Len(q) + 1])

Add(gate, budget) ==
    /\ pc = "idle"
    /\ ghost.runs < ghost.max_runs
    /\ Len(queue) < budget
    /\ IF InsufficientQubits(gate)
       THEN /\ outcome' = "InsufficientQubits"
            /\ queue' = queue
       ELSE /\ outcome' = "ok"
            /\ queue' = BaseAdd(queue, gate)
    /\ UNCHANGED <<nqubits, calc_devices, has_queues, global_qubits_set, swaps_list,
                   dqueues, special_queue, pieces, pc, tr_queue, remaining_queue,
                   counter, wave, special_pos, jobs, initial_state, ghost>>

(***************************************************************************)
(* global_qubits setter.                                                   *)
(***************************************************************************)
\* a test that lets a set with too many ids through
TooFewGlobalQubits(x) == Cardinality(x) < nglobal

\* lines 381-384: whether the setter raises
InvalidNumberOfGlobalQubits(x) == Cardinality(x) # nglobal

SetGlobalQubits(x) ==
    /\ pc = "idle"
    /\ ghost.runs < ghost.max_runs
    /\ IF InvalidNumberOfGlobalQubits(x)
       THEN /\ outcome' = "InvalidPartition"
            /\ UNCHANGED <<has_queues, global_qubits_set, swaps_list, dqueues, special_queue>>
       ELSE /\ outcome' = "ok"
            /\ has_queues' = TRUE
            /\ global_qubits_set' = x
            /\ swaps_list' = <<>>
            /\ dqueues' = <<>>
            /\ special_queue' = <<>>
    /\ UNCHANGED <<nqubits, calc_devices, queue, pieces, pc, tr_queue, remaining_queue,
                   counter, wave, special_pos, jobs, initial_state, ghost>>

(***************************************************************************)
(* execute: planning (_execute lines 520-521, set_gates).                  *)
(***************************************************************************)
\* line 520: whether _execute plans
NeedsPlan == ~has_queues \/ dqueues = <<>>

\* a planner that takes an empty queue
NeverEmpty(q) == FALSE

\* set_gates lines 434-435: no gates to plan
NoGatesAvailable(q) == q = <<>>

\* a slice from the other end of the sorted ids
DefaultGlobalQubitsFromEnd(sorted) == {sorted[Len(sorted) + 1 - k] : k \in 1..nglobal}

\* line 438: counter.argsort()[:nglobal], as the set the setter makes of it
DefaultGlobalQubits(sorted) == {sorted[k] : k \in 1..nglobal}

Execute ==
    /\ pc = "idle"
    /\ ghost.runs < ghost.max_runs
    /\ IF NeedsPlan
       THEN IF NoGatesAvailable(queue)
            THEN /\ outcome' = "PlanEmpty"
                 /\ ghost' = [ghost EXCEPT !.runs = @ + 1, !.plan_errors = @ + 1]
                 /\ UNCHANGED <<pc, has_queues, global_qubits_set, swaps_list, dqueues,
                                special_queue, tr_queue, remaining_queue, counter>>
            ELSE /\ outcome' = "running"
                 /\ pc' = "transform"
                 /\ counter' = Count(queue, nqubits)
                 /\ IF has_queues
                    THEN UNCHANGED <<has_queues, global_qubits_set, swaps_list, dqueues,
                                     special_queue>>
                    ELSE /\ has_queues' = TRUE
                         /\ \E sorted \in Argsorts(Count(queue, nqubits)) :
                               global_qubits_set' = DefaultGlobalQubits(sorted)
                         /\ swaps_list' = <<>>
                         /\ dqueues' = <<>>
                         /\ special_queue' = <<>>
                 /\ tr_queue' = <<>>
                 /\ remaining_queue' = queue
                 /\ ghost' = [ghost EXCEPT !.runs = @ + 1, !.plan_input = queue,
                                           !.reconfigurations = 0]
       ELSE /\ outcome' = "running"
            /\ pc' = "cast"
            /\ ghost' = [ghost EXCEPT !.runs = @ + 1]
            /\ UNCHANGED <<has_queues, global_qubits_set, swaps_list, dqueues,
                           special_queue, tr_queue, remaining_queue, counter>>
    /\ UNCHANGED <<nqubits, calc_devices, queue, pieces, wave, special_pos, jobs,
                   initial_state>>

\* without lines 178-180: a SWAP treated like any other head gate
HeadOrdersNoPop(gate, G) == Orderings(Range(gate.t) \cap G)

\* the orders in which line 185 can meet the global targets of the head gate; for a
\* SWAP, line 180 first drops the target that set.pop() returns
HeadOrders(gate, G) ==
    IF gate.kind = "SWAP"
    THEN {<<x>> : x \in Range(gate.t)}
    ELSE Orderings(Range(gate.t) \cap G)

\* one call of _transform: the walk, then return or reconfigure and recurse
TransformStep ==
    /\ pc = "transform"
    /\ LET P == PassLoop(remaining_queue, tr_queue, <<>>, counter, swaps_list,
                         global_qubits_set)
       IN  IF P.remaining = <<>>
           THEN /\ pc' = "tail"
                /\ tr_queue' = P.queue
                /\ remaining_queue' = <<>>
                /\ counter' = P.counter
                /\ queue' = UpdateQueue(queue, P.queue)
                /\ UNCHANGED <<swaps_list, outcome, ghost>>
           ELSE LET gate == P.remaining[1]
                IN  IF gate.kind = "SWAP"
                       /\ Cardinality(Range(gate.t) \cap global_qubits_set) # 2
                    THEN /\ pc' = "idle"
                         /\ outcome' = "AssertionError"
                         /\ tr_queue' = P.queue
                         /\ remaining_queue' = P.remaining
                         /\ counter' = P.counter
                         /\ queue' = UpdateQueue(queue, P.queue \o P.remaining)
                         /\ UNCHANGED <<swaps_list, ghost>>
                    ELSE \E order \in HeadOrders(gate, global_qubits_set),
                            sorted \in Argsorts(P.counter) :
                           LET target_set == IF gate.kind = "SWAP" THEN Range(order)
                                             ELSE Range(gate.t)
                               R == SwapLoop(order,
                                             AvailableSwaps(sorted, global_qubits_set,
                                                            target_set),
                                             P.queue, swaps_list, P.counter, <<>>)
                               relabelled == [k \in 1..Len(P.remaining) |->
                                                 Relabel(P.remaining[k], R.qubit_map)]
                           IN  /\ swaps_list' = R.swaps
                               /\ counter' = R.counter
                               /\ tr_queue' = R.queue
                               /\ IF R.ok
                                  THEN /\ pc' = "transform"
                                       /\ remaining_queue' = relabelled
                                       /\ queue' = UpdateQueue(queue, P.queue \o relabelled)
                                       /\ ghost' = [ghost EXCEPT !.reconfigurations = @ + 1]
                                       /\ UNCHANGED outcome
                                  ELSE /\ pc' = "idle"
                                       /\ outcome' = "StopIteration"
                                       /\ remaining_queue' = P.remaining
                                       /\ queue' = UpdateQueue(queue, P.queue \o P.remaining)
                                       /\ UNCHANGED ghost
    /\ UNCHANGED <<nqubits, calc_devices, has_queues, global_qubits_set, dqueues,
                   special_queue, pieces, wave, special_pos, jobs, initial_state>>

\* transform's tail (lines 227-229) and create (set_gates line 441)
FinishPlan ==
    /\ pc = "tail"
    /\ LET new_queue == tr_queue \o UndoSwaps(swaps_list)
           C == CreateLoop(new_queue, dqueues, special_queue, global_qubits_set, ndevices)
       IN  /\ ghost' = [ghost EXCEPT !.transformed_queue = new_queue]
           /\ dqueues' = C.queues
           /\ special_queue' = C.special_queue
           /\ IF C.error = "none"
              THEN pc' = "cast" /\ UNCHANGED outcome
              ELSE pc' = "idle" /\ outcome' = C.error
    /\ UNCHANGED <<nqubits, calc_devices, queue, has_queues, global_qubits_set, swaps_list,
                   pieces, tr_queue, remaining_queue, counter, wave, special_pos, jobs,
                   initial_state>>

(***************************************************************************)
(* execute: the initial state (_cast_initial_state).                       *)
(***************************************************************************)
\* _default_initial_state: fresh zero pieces, piece 0 the ground-state piece
DefaultInitialPieces ==
    [i1 \in 1..ndevices |->
        [j1 \in 1..Pow2(nlocal) |-> IF i1 = 1 /\ j1 = 1 THEN 1 ELSE 0]]

\* a default state that allocates pieces only when there are none and writes piece 0
InitialPiecesReused(old, init) ==
    IF init = "none"
    THEN IF old = <<>> THEN DefaultInitialPieces
         ELSE [old EXCEPT ![1] = DefaultInitialPieces[1]]
    ELSE Split(SymbolicState)

\* _cast_initial_state lines 597-604: the default state, or the given state split
InitialPieces(old, init) ==
    IF init = "none" THEN DefaultInitialPieces ELSE Split(SymbolicState)

\* the initial_state argument of execute is first read here
CastInitialState(init) ==
    /\ pc = "cast"
    /\ initial_state' = init
    /\ pieces' = InitialPieces(pieces, init)
    /\ pc' = "waves"
    /\ wave' = 0
    /\ special_pos' = 0
    /\ UNCHANGED <<nqubits, calc_devices, queue, has_queues, global_qubits_set, swaps_list,
                   dqueues, special_queue, tr_queue, remaining_queue, counter, jobs,
                   outcome, ghost>>

(***************************************************************************)
(* execute: the walk over the waves (_execute lines 524-531,               *)
(* _joblib_execute, _special_gate_execute).                                *)
(***************************************************************************)
\* a pool call that returns as soon as one _device_job has returned
AnyJobDone == \E d \in DOMAIN jobs : jobs[d].pos = Len(device_to_ids[d])

\* lines 475-478: joblib's pool call returns when every _device_job has returned
AllJobsDone == \A d \in DOMAIN jobs : jobs[d].pos = Len(device_to_ids[d])

\* line 527: start one _device_job per device
Dispatch ==
    /\ pc = "waves"
    /\ wave < Len(dqueues)
    /\ dqueues[wave + 1] # <<>>
    /\ jobs' = [d \in 1..Len(calc_devices) |-> [pos |-> 0, holding |-> FALSE, state |-> <<>>]]
    /\ pc' = "dispatch"
    /\ ghost' = [ghost EXCEPT !.wave_start = pieces]
    /\ UNCHANGED <<nqubits, calc_devices, queue, has_queues, global_qubits_set, swaps_list,
                   dqueues, special_queue, pieces, tr_queue, remaining_queue, counter, wave,
                   special_pos, initial_state, outcome>>

\* line 471: the job of device d reads its next piece and runs the piece's gates
JobExecute(d) ==
    /\ pc = "dispatch"
    /\ jobs[d].pos < Len(device_to_ids[d])
    /\ ~jobs[d].holding
    /\ LET i == device_to_ids[d][jobs[d].pos + 1]
       IN  jobs' = [jobs EXCEPT ![d].holding = TRUE,
                                ![d].state = DeviceExecute(pieces[i + 1],
                                                           dqueues[wave + 1][i + 1])]
    /\ UNCHANGED <<nqubits, calc_devices, queue, has_queues, global_qubits_set, swaps_list,
                   dqueues, special_queue, pieces, pc, tr_queue, remaining_queue, counter,
                   wave, special_pos, initial_state, outcome, ghost>>

\* line 472: the job writes the piece back and goes on to its next id
JobAssign(d) ==
    /\ pc = "dispatch"
    /\ jobs[d].holding
    /\ LET i == device_to_ids[d][jobs[d].pos + 1]
       IN  pieces' = [pieces EXCEPT ![i + 1] = jobs[d].state]
    /\ jobs' = [jobs EXCEPT ![d].holding = FALSE, ![d].state = <<>>, ![d].pos = @ + 1]
    /\ UNCHANGED <<nqubits, calc_devices, queue, has_queues, global_qubits_set, swaps_list,
                   dqueues, special_queue, pc, tr_queue, remaining_queue, counter, wave,
                   special_pos, initial_state, outcome, ghost>>

\* lines 475-478 return: the loop of _execute goes to the next wave
Join ==
    /\ pc = "dispatch"
    /\ AllJobsDone
    /\ pc' = "waves"
    /\ wave' = wave + 1
    /\ jobs' = <<>>
    /\ ghost' = [ghost EXCEPT !.wave_start = <<>>]
    /\ UNCHANGED <<nqubits, calc_devices, queue, has_queues, global_qubits_set, swaps_list,
                   dqueues, special_queue, pieces, tr_queue, remaining_queue, counter,
                   special_pos, initial_state, outcome>>

\* line 529: a special wave takes the next entry of the special queue
SpecialStep ==
    /\ pc = "waves"
    /\ wave < Len(dqueues)
    /\ dqueues[wave + 1] = <<>>
    /\ IF special_pos >= Len(special_queue)
       THEN /\ pc' = "idle"
            /\ outcome' = "StopIteration"
            /\ UNCHANGED <<pieces, wave, special_pos, ghost>>
       ELSE LET gate == special_queue[special_pos + 1]
            IN  IF ~CanSpecialGateExecute(gate)
                THEN /\ pc' = "idle"
                     /\ outcome' = "KeyError"
                     /\ special_pos' = special_pos + 1
                     /\ UNCHANGED <<pieces, wave, ghost>>
                ELSE /\ pieces' = SpecialGateExecute(pieces, gate)
                     /\ special_pos' = special_pos + 1
                     /\ wave' = wave + 1
                     /\ ghost' = IF gate.kind = "Callback"
                                 THEN [ghost EXCEPT !.callback_state =
                                                        CallbackArgument(pieces, gate)]
                                 ELSE ghost
                     /\ UNCHANGED <<pc, outcome>>
    /\ UNCHANGED <<nqubits, calc_devices, queue, has_queues, global_qubits_set, swaps_list,
                   dqueues, special_queue, tr_queue, remaining_queue, counter, jobs,
                   initial_state>>

\* lines 530-531: the loop over what is left of the iterator executes every second
\* entry; next() fails when an odd number is left
RECURSIVE Drain(_, _)
Drain(ps, left) ==
    IF left = <<>> THEN [pieces |-> ps, error |-> "none"]
    ELSE IF Len(left) = 1 THEN [pieces |-> ps, error |-> "StopIteration"]
    ELSE IF ~CanSpecialGateExecute(left[2]) THEN [pieces |-> ps, error |-> "KeyError"]
    ELSE Drain(SpecialGateExecute(ps, left[2]), SubSeq(left, 3, Len(left)))

\* lines 530-537: after the last wave, the final state is the merged pieces
Finish ==
    /\ pc = "waves"
    /\ wave = Len(dqueues)
    /\ LET D == Drain(pieces, SubSeq(special_queue, special_pos + 1, Len(special_queue)))
       IN  /\ pieces' = D.pieces
           /\ special_pos' = Len(special_queue)
           /\ IF D.error = "none"
              THEN /\ outcome' = "done"
                   /\ ghost' = [ghost EXCEPT !.final_state = Merge(D.pieces)]
              ELSE /\ outcome' = D.error
                   /\ UNCHANGED ghost
    /\ pc' = "idle"
    /\ UNCHANGED <<nqubits, calc_devices, queue, has_queues, global_qubits_set, swaps_list,
                   dqueues, special_queue, tr_queue, remaining_queue, counter, wave, jobs,
                   initial_state>>

(***************************************************************************)
(* Specification.                                                          *)
(***************************************************************************)
ValidGlobalSets == {x \in SUBSET AllQubits : Cardinality(x) = nglobal}

Planning ==
    \/ Execute
    \/ TransformStep
    \/ FinishPlan

Running ==
    \/ \E init \in {"none", "given"} : CastInitialState(init)
    \/ Dispatch
    \/ \E d \in DOMAIN jobs : JobExecute(d)
    \/ \E d \in DOMAIN jobs : JobAssign(d)
    \/ Join
    \/ SpecialStep
    \/ Finish

\* circuits of admissible gates, planned and executed
Next ==
    \/ \E gate \in Admissible : Add(gate, ExecBudget)
    \/ \E x \in ValidGlobalSets : SetGlobalQubits(x)
    \/ Planning
    \/ Running

Spec == Init /\ [][Next]_vars

\* longer circuits of admissible gates, planned only
NextPlan ==
    \/ \E gate \in Admissible : Add(gate, PlanBudget)
    \/ \E x \in ValidGlobalSets : SetGlobalQubits(x)
    \/ Planning

SpecPlan == Init /\ [][NextPlan]_vars

\* the calls a user can make before execute, the refused ones included
NextSurface ==
    \/ \E gate \in SurfaceAlphabet : Add(gate, ExecBudget)
    \/ \E x \in SUBSET AllQubits : SetGlobalQubits(x)

SpecSurface == Init /\ [][NextSurface]_vars

\* short circuits with add, the setter (refused calls included) and execute called
\* again after an execute
NextRerun ==
    \/ \E gate \in Admissible : Add(gate, RerunBudget)
    \/ \E x \in SUBSET AllQubits : SetGlobalQubits(x)
    \/ Planning
    \/ Running

SpecRerun == InitRerun /\ [][NextRerun]_vars

(***************************************************************************)
(* Properties of the queue transformer.                                    *)
(***************************************************************************)
\* the head of the gates that the walk of the next _transform call defers
Deferred ==
    PassLoop(remaining_queue, tr_queue, <<>>, counter, swaps_list, global_qubits_set).remaining

GlobalTargets(g) == Range(g.t) \cap global_qubits_set

SwapNormalized(q) ==
    \A k \in 1..Len(q) :
        IF q[k].kind = "SWAP" THEN Cardinality(GlobalTargets(q[k])) <= 1
        ELSE GlobalTargets(q[k]) = {}

\* C1: whenever transform returns (tail included), no gate of the returned queue
\* that is not a SWAP has a global target, and no SWAP has two.
C1_NoGlobalTargetAfterTransform ==
    [][FinishPlan => SwapNormalized(ghost'.transformed_queue)]_vars

\* a plan with two inserted swaps around gates that are not SWAPs
C1_Witness ==
    /\ pc = "cast"
    /\ Len(swaps_list) >= 2
    /\ \E k \in 1..Len(ghost.transformed_queue) :
          ghost.transformed_queue[k].kind = "X" /\ ghost.transformed_queue[k].id > 0

\* the position map of C2 after an inserted SWAP(q, qs)
Exchange(pos, g) ==
    [o \in DOMAIN pos |-> IF pos[o] = g.t[1] THEN g.t[2]
                          ELSE IF pos[o] = g.t[2] THEN g.t[1] ELSE pos[o]]

RECURSIVE Tracks(_, _, _)
Tracks(q, input, pos) ==
    IF q = <<>> THEN TRUE
    ELSE LET g == Head(q)
         IN  IF g.id = 0 THEN Tracks(Tail(q), input, Exchange(pos, g))
             ELSE /\ g.id \in 1..Len(input)
                  /\ g.kind = input[g.id].kind
                  /\ g.t = [k \in 1..Len(input[g.id].t) |-> pos[input[g.id].t[k]]]
                  /\ g.c = [k \in 1..Len(input[g.id].c) |-> pos[input[g.id].c[k]]]
                  /\ Tracks(Tail(q), input, pos)

EachInputGateOnce(q, input) ==
    \A id \in 1..Len(input) : Cardinality({k \in 1..Len(q) : q[k].id = id}) = 1

IdentityMap == [o \in AllQubits |-> o]

\* C2: in the queue transform returns, the gates that were not inserted are the input
\* gates, each once, and each has its original targets and controls taken through
\* the position map that every inserted SWAP before it exchanged.
C2_OutputTracksPositions ==
    [][FinishPlan =>
          /\ EachInputGateOnce(ghost'.transformed_queue, ghost.plan_input)
          /\ Tracks(ghost'.transformed_queue, ghost.plan_input, IdentityMap)]_vars

\* a planned gate with a control whose targets and controls were both relabelled
C2_Witness ==
    /\ pc = "cast"
    /\ \E k \in 1..Len(ghost.transformed_queue) :
          LET g == ghost.transformed_queue[k]
          IN  /\ g.id > 0
              /\ g.c # <<>>
              /\ g.t # ghost.plan_input[g.id].t
              /\ g.c # ghost.plan_input[g.id].c

\* the deferred head is a SWAP with both targets global
HeadIsGlobalGlobalSwap ==
    /\ pc = "transform"
    /\ Deferred # <<>>
    /\ Deferred[1].kind = "SWAP"
    /\ Cardinality(GlobalTargets(Deferred[1])) = 2

RECURSIVE PositionsAfter(_, _)
PositionsAfter(q, pos) ==
    IF q = <<>> THEN pos
    ELSE PositionsAfter(Tail(q), IF Head(q).id = 0 THEN Exchange(pos, Head(q)) ELSE pos)

\* C9: the queue transform returns ends with one SWAP per recorded pair, the last
\* recorded pair first; these are all the swaps it inserted besides the recorded ones,
\* the inserted swaps together put every qubit back where it was, and no step of an
\* execution changes the global qubits.
C9_TailUndoesSwapsInReverse ==
    [][/\ FinishPlan =>
            LET q == ghost'.transformed_queue
                n == Len(swaps_list)
            IN  /\ Len(q) >= 2 * n
                /\ \A k \in 1..n :
                      q[Len(q) - n + k] = SWAP(swaps_list[n + 1 - k][1], swaps_list[n + 1 - k][2])
                /\ Cardinality({k \in 1..Len(q) : q[k].id = 0}) = 2 * n
                /\ PositionsAfter(q, IdentityMap) = IdentityMap
       /\ pc \notin {"idle"} => global_qubits_set' = global_qubits_set]_vars

\* a plan that recorded two different pairs
C9_Witness ==
    /\ pc = "cast"
    /\ Len(swaps_list) >= 2
    /\ swaps_list[1] # swaps_list[2]
    /\ Len(ghost.transformed_queue) > 2 * Len(swaps_list)

(***************************************************************************)
(* Properties of add.                                                      *)
(***************************************************************************)
Appended(gate) == queue' = Append(queue, [gate EXCEPT !.id = Len(queue) + 1])

\* C4 as stated: add appends the gate when N - |targets| >= log2(D), and refuses
\* every gate that is not a measurement when N - |targets| < log2(D), leaving the
\* queue as it was.
C4_AsStated ==
    [][\A gate \in SurfaceAlphabet :
          Add(gate, ExecBudget) =>
              /\ nqubits - Len(gate.t) >= nglobal => outcome' = "ok" /\ Appended(gate)
              /\ (gate.kind # "M" /\ nqubits - Len(gate.t) < nglobal) =>
                     outcome' = "InsufficientQubits" /\ queue' = queue]_vars

\* C4 amended: a VariationalLayer is exempt like a measurement; add refuses a gate
\* with N - |targets| < log2(D) only if it is neither, and then leaves the queue as
\* it was; every other gate is accepted and a gate that is neither goes to the end
\* of the queue.
C4_AddChecksAllButLayersAndMeasurements ==
    [][\A gate \in SurfaceAlphabet :
          Add(gate, ExecBudget) =>
              LET exempt == gate.kind \in {"M", "VariationalLayer"}
              IN  /\ (exempt \/ nqubits - Len(gate.t) >= nglobal) =>
                         outcome' = "ok" /\ (~exempt => Appended(gate))
                  /\ (~exempt /\ nqubits - Len(gate.t) < nglobal) =>
                         outcome' = "InsufficientQubits" /\ queue' = queue]_vars

\* a gate was refused after a variational layer over every qubit had been accepted
C4_Witness ==
    /\ outcome = "InsufficientQubits"
    /\ \E k \in 1..Len(queue) :
          queue[k].kind = "VariationalLayer" /\ nqubits - Len(queue[k].t) < nglobal

(***************************************************************************)
(* Properties of the wave builder.                                         *)
(***************************************************************************)
\* the gate is in the list of piece i in some wave
InPieceList(g, i) ==
    \E w \in 1..Len(dqueues) :
        /\ dqueues[w] # <<>>
        /\ \E k \in 1..Len(dqueues[w][i + 1]) : dqueues[w][i + 1][k].original_gate = g

\* the gates of the transformed queue that go to a non-special wave
Placed == {g \in Range(ghost.transformed_queue) : g.t # <<>> /\ GlobalTargets(g) = {}}

\* C5: once the waves are built, a gate of a non-special wave is in the list of piece
\* i exactly if every global control c of the gate has bit
\* nglobal - global_reduced[c] - 1 of i set.
C5_PieceListsFollowGlobalControls ==
    pc = "cast" =>
        \A g \in Placed : \A i \in 0..(ndevices - 1) :
            InPieceList(g, i) <=>
                \A c \in Range(g.c) \cap global_qubits_set :
                    (i \div Pow2(nglobal - global_qubits_reduced(c) - 1)) % 2 = 1

\* waves built for a gate with two global controls and for one with a global and a
\* local control
C5_Witness ==
    /\ pc = "cast"
    /\ \E g \in Placed : Cardinality(Range(g.c) \cap global_qubits_set) = 2
    /\ \E g \in Placed : Cardinality(Range(g.c) \cap global_qubits_set) = 1
                         /\ Cardinality(Range(g.c)) = 2

(***************************************************************************)
(* Properties of an execution.                                             *)
(***************************************************************************)
\* the piece a job is at
CurrentPiece(d) == device_to_ids[d][jobs[d].pos + 1]

Unfinished == {d \in DOMAIN jobs : jobs[d].pos < Len(device_to_ids[d])}

\* C6: within one execute the loop goes through the waves one by one; while the jobs of a
\* wave are not all finished nothing else runs (the wave index and the special
\* iterator stay where they are), and when the wave ends every piece is the result
\* of applying the gates of its list, in list order, to what it held when the wave
\* began.
C6_WavesAreBarriers ==
    [][/\ pc \in {"waves", "dispatch"} => wave' \in {wave, wave + 1}
       /\ (pc = "dispatch" /\ ~(\A d \in DOMAIN jobs : d \notin Unfinished)) =>
              pc' = "dispatch" /\ wave' = wave /\ special_pos' = special_pos
       /\ (pc = "dispatch" /\ pc' # "dispatch") =>
              /\ wave' = wave + 1
              /\ \A i1 \in 1..ndevices :
                    pieces'[i1] = ApplyGates(dqueues[wave + 1][i1], ghost.wave_start[i1], nlocal)
       /\ wave' = wave + 1 =>
              \/ pc = "dispatch" /\ dqueues[wave + 1] # <<>>
              \/ pc = "waves" /\ dqueues[wave + 1] = <<>> /\ special_pos' = special_pos + 1]_vars

\* in a wave after a special step one job has finished its pieces and another has not
\* started, and some piece has more than one gate to apply
C6_Witness ==
    /\ pc = "dispatch"
    /\ wave >= 1
    /\ \E d \in DOMAIN jobs : d \notin Unfinished
    /\ \E d \in Unfinished : jobs[d].pos = 0 /\ ~jobs[d].holding
    /\ \E i1 \in 1..ndevices : Len(dqueues[wave + 1][i1]) >= 2

\* C7: every piece index is in the id list of exactly one device, at exactly one
\* place, and the jobs of a wave that are still running are at different pieces.
C7_DevicesPartitionThePieces ==
    /\ \A i \in 0..(ndevices - 1) :
          Cardinality({dk \in (1..Len(device_to_ids)) \X (1..ndevices) :
                          /\ dk[2] <= Len(device_to_ids[dk[1]])
                          /\ device_to_ids[dk[1]][dk[2]] = i}) = 1
    /\ \A d \in 1..Len(device_to_ids) : Range(device_to_ids[d]) \subseteq 0..(ndevices - 1)
    /\ pc = "dispatch" =>
          \A d1, d2 \in Unfinished : d1 # d2 => CurrentPiece(d1) # CurrentPiece(d2)

\* two jobs hold a result each, one of them of a device with several pieces
C7_Witness ==
    /\ pc = "dispatch"
    /\ \E d1, d2 \in Unfinished :
          /\ d1 # d2
          /\ jobs[d1].holding /\ jobs[d2].holding
          /\ Len(device_to_ids[d2]) > 1 /\ jobs[d2].pos >= 1

\* the state vector execute starts from
InitialVector ==
    IF initial_state = "none"
    THEN [a1 \in 1..Pow2(nqubits) |-> IF a1 = 1 THEN 1 ELSE 0]
    ELSE SymbolicState

\* the wave each gate of a transformed queue is executed in
RECURSIVE WaveNumbers(_, _, _)
WaveNumbers(q, last, open) ==
    IF q = <<>> THEN <<>>
    ELSE LET special == Head(q).t = <<>> \/ GlobalTargets(Head(q)) # {}
             w == IF special \/ ~open THEN last + 1 ELSE last
         IN  <<w>> \o WaveNumbers(Tail(q), w, ~special)

\* the gates of the first w waves
GatesOfWaves(w) ==
    LET q == ghost.transformed_queue
        numbers == WaveNumbers(q, 0, FALSE)
    IN  SubSeq(q, 1, Cardinality({k \in 1..Len(q) : numbers[k] <= w}))

\* the address of element j of piece i: the bits of i are the global qubits in the
\* order of the global list, the bits of j the local qubits in increasing order
Address(i, j) ==
    Sum([k \in 1..nglobal |-> Bit(i, k - 1, nglobal) * Pow2(nqubits - 1 - global_qubits_list[k])])
    + Sum([k \in 1..nlocal |-> Bit(j, k - 1, nlocal) * Pow2(nqubits - 1 - local_qubits[k])])

\* C8: whenever execute is between two waves, before the first or after the last,
\* element j of piece i is the amplitude of the state reached so far at the address
\* whose global-qubit bits, in the order of the global list, spell i and whose local
\* bits spell j.
C8_PiecesHoldTheirGlobalBits ==
    (pc = "waves" \/ (pc = "idle" /\ outcome = "done")) =>
        LET state == ApplyGates(GatesOfWaves(wave), InitialVector, nqubits)
        IN  \A i \in 0..(ndevices - 1) : \A j \in 0..(Pow2(nlocal) - 1) :
                pieces[i + 1][j + 1] = state[Address(i, j) + 1]

\* between two waves, after a global swap and a wave of gates, with global qubits that
\* are neither the first nor the last qubits
C8_Witness ==
    /\ pc = "waves"
    /\ wave >= 2
    /\ \E k \in 1..special_pos : special_queue[k].kind = "pair"
    /\ initial_state = "given"
    /\ pieces # Split(SymbolicState)
    /\ global_qubits_list # [k \in 1..nglobal |-> k - 1]
    /\ global_qubits_list # [k \in 1..nglobal |-> nlocal + k - 1]

\* the execute loop is at a special wave whose entry is a callback
AtCallback ==
    /\ pc = "waves"
    /\ wave < Len(dqueues)
    /\ dqueues[wave + 1] = <<>>
    /\ special_pos < Len(special_queue)
    /\ special_queue[special_pos + 1].kind = "Callback"

\* C10: the special step of a callback leaves every piece as it was, whatever swaps
\* the callback's snapshot holds.
C10_CallbackLeavesPiecesUnchanged ==
    [][(AtCallback /\ SpecialStep) => (pieces' = pieces /\ pc' = "waves")]_vars

\* a callback whose snapshot holds a swap has just been given the state
C10_Witness ==
    /\ pc = "waves"
    /\ special_pos >= 1
    /\ special_queue[special_pos].kind = "Callback"
    /\ special_queue[special_pos].swap_reset # <<>>
    /\ ghost.callback_state # <<>>
    /\ initial_state = "given"

(***************************************************************************)
(* Properties of the snapshots of special gates.                           *)
(***************************************************************************)
\* the pairs recorded for the SWAPs the transformer put in a queue, in queue order
RECURSIVE InsertedPairs(_)
InsertedPairs(q) ==
    IF q = <<>> THEN <<>>
    ELSE IF Head(q).id = 0
         THEN <<<<Min2(Head(q).t[1], Head(q).t[2]), Max2(Head(q).t[1], Head(q).t[2])>>>>
              \o InsertedPairs(Tail(q))
         ELSE InsertedPairs(Tail(q))

\* C11: in the queue transform returns, the snapshot of every special gate is the list
\* of the pairs of the inserted SWAPs that precede the gate, in their order; and the
\* state a callback is called with, after the snapshot's swaps are reverted last
\* first, is the state the gates added before the callback give in the order of the
\* qubits the user numbered.
C11_SnapshotIsTheSwapsBefore ==
    [][/\ FinishPlan =>
            LET q == ghost'.transformed_queue
            IN  \A k \in 1..Len(q) :
                    is_special_gate(q[k]) =>
                        q[k].swap_reset = InsertedPairs(SubSeq(q, 1, k - 1))
       /\ (AtCallback /\ SpecialStep) =>
            LET gate == special_queue[special_pos + 1]
            IN  ghost'.callback_state =
                    ApplyGates(SubSeq(ghost.plan_input, 1, gate.id - 1), InitialVector,
                               nqubits)]_vars

\* a callback was called after a swap and a gate, and reverting its snapshot mattered
C11_Witness ==
    /\ pc = "waves"
    /\ special_pos >= 2
    /\ special_queue[special_pos].kind = "Callback"
    /\ Len(special_queue[special_pos].swap_reset) >= 1
    /\ special_queue[special_pos].id >= 2
    /\ ghost.callback_state # <<>>
    /\ ghost.callback_state # Merge(pieces)

(***************************************************************************)
(* Properties of the choice of the global qubits.                          *)
(***************************************************************************)
\* execute plans a circuit for which no global qubits were set
PlansWithDefault == Execute /\ ~has_queues /\ queue # <<>>

\* the number of gates of the queue whose targets contain q
Targeting(q) == Cardinality({k \in 1..Len(queue) : \E j \in 1..Len(queue[k].t) : queue[k].t[j] = q})

StrictlyIncreasing(s) == \A a, b \in 1..Len(s) : a < b => s[a] < s[b]

\* C13: the setter refuses a set whose number of ids is not log2(D) and then leaves
\* the partition, the plan, the pieces and the queue as they were; given a set of the
\* right size it makes a partition whose global list is that set, whose two lists are
\* sorted and disjoint and together hold each qubit of the circuit.
C13_SetterChecksTheNumberOfGlobals ==
    [][\A x \in SUBSET AllQubits :
          SetGlobalQubits(x) =>
              /\ Cardinality(x) # nglobal =>
                    /\ outcome' = "InvalidPartition"
                    /\ UNCHANGED <<has_queues, global_qubits_set, swaps_list, dqueues,
                                   special_queue, pieces, queue>>
              /\ Cardinality(x) = nglobal =>
                    LET gl == GlobalList(global_qubits_set')
                        ll == LocalList(global_qubits_set')
                    IN  /\ outcome' = "ok"
                        /\ has_queues'
                        /\ Range(gl) = x
                        /\ Len(gl) = nglobal
                        /\ StrictlyIncreasing(gl) /\ StrictlyIncreasing(ll)
                        /\ Range(gl) \cap Range(ll) = {}
                        /\ Range(gl) \cup Range(ll) = AllQubits]_vars

\* the setter refused a set while the circuit had a partition, a plan and pieces
C13_Witness ==
    /\ outcome = "InvalidPartition"
    /\ has_queues
    /\ dqueues # <<>>
    /\ pieces # <<>>
    /\ swaps_list # <<>>

(***************************************************************************)
(* Planning errors.                                                        *)
(***************************************************************************)
PlanningErrors ==
    {"PlanEmpty", "InvalidPartition", "InsufficientQubits", "GlobalGlobalSwap",
     "StopIteration", "AssertionError"}

RaisesPlanningError == outcome' \in PlanningErrors /\ pc \in {"idle", "transform", "tail"}

\* C14: a step that raises a planning error changes no piece, runs no wave and no
\* special step and leaves no part of a plan behind; execute with an empty queue is
\* such a step and raises PlanEmpty; and every execute that finds no plan and a
\* non-empty queue, also one that follows a planning error, starts the planner on the
\* whole queue with an empty plan.
C14_PlanningErrorsLeaveNothingBehind ==
    [][/\ (Execute /\ (~has_queues \/ dqueues = <<>>) /\ queue = <<>>) =>
              outcome' = "PlanEmpty"
       /\ RaisesPlanningError =>
              /\ pc' = "idle"
              /\ UNCHANGED <<pieces, wave, special_pos, jobs, dqueues, special_queue>>
              /\ swaps_list' = swaps_list
       /\ (Execute /\ (~has_queues \/ dqueues = <<>>) /\ queue # <<>>) =>
              /\ pc' = "transform"
              /\ tr_queue' = <<>>
              /\ remaining_queue' = queue
              /\ counter' = Count(queue, nqubits)
              /\ swaps_list' = <<>> /\ dqueues' = <<>> /\ special_queue' = <<>>
              /\ ghost'.plan_input = queue]_vars

\* an execute that was refused for want of gates, then gates were added and the next
\* execute planned and ran them
C14_Witness ==
    /\ ghost.plan_errors = 1
    /\ ghost.runs = 2
    /\ pc = "idle"
    /\ outcome = "done"
    /\ dqueues # <<>>
    /\ Len(ghost.plan_input) = Len(queue)

\* no planning error other than the three of the user surface is raised for queues
\* built through add
OnlySurfaceErrors == outcome \notin {"GlobalGlobalSwap", "StopIteration", "AssertionError", "KeyError"}

(***************************************************************************)
(* Gates added between two executes.                                       *)
(***************************************************************************)
\* the positions of the circuit's queue that the plan in use was built from
PlannedIds ==
    {ghost.transformed_queue[k].id : k \in 1..Len(ghost.transformed_queue)} \ {0}

\* C15 as stated: whenever an execute is casting the state or running waves, the plan it
\* runs holds every gate that is in the circuit's queue at that time.
C15_AsStated ==
    pc \in {"cast", "dispatch", "waves"} =>
        \A k \in 1..Len(queue) : queue[k].id \in PlannedIds

(***************************************************************************)
(* Special gates in a walk of the transformer.                             *)
(***************************************************************************)
\* where the gate with the given id is after the walk: among the gates the walk
\* accepted, or among those it deferred
AcceptedAt(id) == {j \in (Len(tr_queue) + 1)..Len(tr_queue') : tr_queue'[j].id = id}
DeferredAt(id) == {j \in 1..Len(remaining_queue') : remaining_queue'[j].id = id}

\* C16 as stated: a walk accepts every special gate it visits and the gate carries the
\* swap list of that walk.
C16_AsStated ==
    [][TransformStep =>
          \A k \in 1..Len(remaining_queue) :
              is_special_gate(remaining_queue[k]) =>
                  /\ AcceptedAt(remaining_queue[k].id) # {}
                  /\ \A j \in AcceptedAt(remaining_queue[k].id) :
                        tr_queue'[j].swap_reset = swaps_list]_vars

\* C16 amended: a walk accepts a special gate exactly when the gate commutes with every
\* gate the walk deferred before it; accepted or deferred, the gate leaves the walk
\* carrying the swap list as it was during that walk, so an accepted gate carries the
\* swap list of the walk that accepted it.
C16_SpecialGateAcceptedIfItCommutes ==
    [][TransformStep =>
          \A k \in 1..Len(remaining_queue) :
              LET gate == remaining_queue[k]
              IN  is_special_gate(gate) =>
                      /\ AcceptedAt(gate.id) # {} <=>
                            \A i \in 1..(k - 1) :
                                DeferredAt(remaining_queue[i].id) # {} =>
                                    Commutes(remaining_queue[i], gate)
                      /\ (AcceptedAt(gate.id) = {}) = (DeferredAt(gate.id) # {})
                      /\ \A j \in AcceptedAt(gate.id) : tr_queue'[j].swap_reset = swaps_list
                      /\ \A j \in DeferredAt(gate.id) :
                            remaining_queue'[j].swap_reset = swaps_list]_vars

\* the walks are over and a special gate that an earlier walk deferred was accepted by a
\* later one, carrying the pairs inserted in between
C16_Witness ==
    /\ pc = "tail"
    /\ \E k \in 1..Len(tr_queue) :
          /\ is_special_gate(tr_queue[k])
          /\ tr_queue[k].swap_reset # <<>>
          /\ tr_queue[k].swap_reset = swaps_list

(***************************************************************************)
(* Termination of the transformer.                                         *)
(***************************************************************************)
Reconfigures == TransformStep /\ ghost'.reconfigurations = ghost.reconfigurations + 1

\* C17: the transformer raises nothing; a reconfiguration leaves at the head of the deferred gates a gate that the
\* next walk accepts; every walk after a reconfiguration leaves fewer deferred gates
\* than it found; and a plan has at most as many reconfigurations as gates.
C17_TransformTerminates ==
    [][/\ TransformStep =>
             /\ outcome' \notin {"StopIteration", "AssertionError"}
             /\ ghost'.reconfigurations <= Len(ghost'.plan_input)
       /\ Reconfigures =>
             /\ remaining_queue' # <<>>
             /\ Accept(remaining_queue'[1], <<>>, global_qubits_set)
       /\ (TransformStep /\ ghost.reconfigurations > 0) =>
             /\ AcceptedAt(remaining_queue[1].id) # {}
             /\ Len(remaining_queue') < Len(remaining_queue)]_vars

\* a circuit with one local qubit only whose plan took one reconfiguration for each
\* of its gates, two at least
C17_Witness ==
    /\ pc = "tail"
    /\ nqubits = nglobal + 1
    /\ ghost.reconfigurations >= 2
    /\ ghost.reconfigurations = Len(ghost.plan_input)

(***************************************************************************)
(* Order of the gates the transformer emits.                               *)
(***************************************************************************)
\* the ids of the input gates in a queue, in the order of the queue
InputIds(q) == LET kept == SelectSeq(q, LAMBDA g : g.id > 0)
               IN  [k \in 1..Len(kept) |-> kept[k].id]

\* s keeps the relative order that its elements have in r
SameOrderAs(s, r) ==
    \A a, b \in 1..Len(s) :
        a < b => \E i, j \in 1..Len(r) : i < j /\ r[i] = s[a] /\ r[j] = s[b]

\* C18: a walk accepts a gate exactly when the gate has no global target, or is a SWAP
\* with one, and commutes with every gate the walk deferred before it; the accepted
\* gates are emitted, and the deferred gates kept, in the order the walk met them. So a
\* gate overtakes an earlier gate only in a walk in which the two commuted.
C18_OvertakingNeedsCommuting ==
    [][TransformStep =>
          /\ \A k \in 1..Len(remaining_queue) :
                LET gate == remaining_queue[k]
                    global_targets == Range(gate.t) \cap global_qubits_set
                IN  AcceptedAt(gate.id) # {} <=>
                        /\ \/ global_targets = {}
                           \/ gate.kind = "SWAP" /\ Cardinality(global_targets) = 1
                        /\ \A i \in 1..(k - 1) :
                              DeferredAt(remaining_queue[i].id) # {} =>
                                  Commutes(remaining_queue[i], gate)
          /\ SubSeq(tr_queue', 1, Len(tr_queue)) = tr_queue
          /\ SameOrderAs(InputIds(SubSeq(tr_queue', Len(tr_queue) + 1, Len(tr_queue'))),
                         InputIds(remaining_queue))
          /\ SameOrderAs(InputIds(remaining_queue'), InputIds(remaining_queue))]_vars

\* the walks are over and a gate was emitted ahead of a gate added before it
C18_Witness ==
    /\ pc = "tail"
    /\ \E j, k \in 1..Len(tr_queue) :
          j < k /\ tr_queue[k].id > 0 /\ tr_queue[j].id > tr_queue[k].id

(***************************************************************************)
(* The partition across a global swap.                                     *)
(***************************************************************************)
\* the execute loop is at a special wave whose entry is a (global, local) pair
AtGlobalSwap ==
    /\ pc = "waves"
    /\ wave < Len(dqueues)
    /\ dqueues[wave + 1] = <<>>
    /\ special_pos < Len(special_queue)
    /\ special_queue[special_pos + 1].kind = "pair"

FirstPiecesOf(D, m) == {PairIndex(g, m) : g \in 0..((D \div 2) - 1)}

\* the pairs (i, i + 2^m) of piece bit m split the D pieces, i being the one with bit m 0
PairsSplit(D, m) ==
    LET t == Pow2(m)
        I == FirstPiecesOf(D, m)
        J == {i + t : i \in I}
    IN  /\ Cardinality(I) = D \div 2
        /\ \A i \in I : (i \div t) % 2 = 0 /\ i + t < D
        /\ I \cap J = {}
        /\ I \cup J = 0..(D - 1)

\* the pieces with distinct amplitudes everywhere
DistinctPieces == Split(SymbolicState)

\* C20: for D = 2^n pieces, n up to MaxGlobalBits, and each piece bit m, with t = 2^m,
\* the D/2 indices i that _swap computes are distinct, have bit m equal to 0 and
\* i + t < D, and the pieces i and i + t together are all the D pieces, each in one
\* pair. Once the circuit has a partition the piece bit of each global qubit is such an
\* m, and a swap of that qubit with any local qubit changes every piece of a state with
\* distinct amplitudes once: doing it again gives the state back.
C20_PairsPartitionThePieces ==
    /\ \A n \in 1..MaxGlobalBits : \A m \in 0..(n - 1) : PairsSplit(Pow2(n), m)
    /\ has_queues =>
        \A q \in global_qubits_set :
            LET m == nglobal - global_qubits_reduced(q) - 1
            IN  /\ m \in 0..(nglobal - 1)
                /\ PairsSplit(ndevices, m)
                /\ \A l \in AllQubits \ global_qubits_set :
                      LET once == Swap(DistinctPieces, q, l)
                      IN  /\ \A i \in 1..ndevices : once[i] # DistinctPieces[i]
                          /\ Swap(once, q, l) = DistinctPieces

\* a swap on four pieces has just been executed for the global qubit of the higher
\* piece bit
C20_Witness ==
    /\ pc = "waves"
    /\ ndevices = 4
    /\ special_pos >= 1
    /\ special_queue[special_pos].kind = "pair"
    /\ nglobal - global_qubits_reduced(special_queue[special_pos].t[1]) - 1 = 1

(***************************************************************************)
(* Reduced gates.                                                          *)
(***************************************************************************)
\* the reduced gates in the lists of the non-special waves
ReducedGates ==
    UNION {UNION {Range(dqueues[w][i]) : i \in 1..Len(dqueues[w])} : w \in 1..Len(dqueues)}

\* the number of global ids strictly less than q
GlobalsBelow(q) == Cardinality({x \in global_qubits_set : x < q})

\* C21: each reduced gate of a non-special wave has the targets of the gate it was
\* made from, each lowered by the number of global ids below it, and that gate's local
\* controls, in their order, lowered the same way, its global controls left out; the
\* lowering keeps the order of the local qubits; and the targets and controls of a
\* reduced gate are distinct ids of [0, nlocal).
C21_ReducedGatesUseLocalIds ==
    /\ \A a, b \in AllQubits \ global_qubits_set :
          a < b => a - GlobalsBelow(a) < b - GlobalsBelow(b)
    /\ \A rg \in ReducedGates :
          LET g == rg.original_gate
              lc == SelectSeq(g.c, LAMBDA q : q \notin global_qubits_set)
          IN  /\ Len(rg.t) = Len(g.t)
              /\ \A k \in 1..Len(g.t) : rg.t[k] = g.t[k] - GlobalsBelow(g.t[k])
              /\ Len(rg.c) = Len(lc)
              /\ \A k \in 1..Len(lc) : rg.c[k] = lc[k] - GlobalsBelow(lc[k])
              /\ Range(rg.t) \cup Range(rg.c) \subseteq 0..(nlocal - 1)
              /\ Cardinality(Range(rg.t) \cup Range(rg.c)) = Len(rg.t) + Len(rg.c)

\* waves built with a reduced gate that lost a global control, kept a local one and
\* has its target lowered
C21_Witness ==
    /\ pc = "cast"
    /\ \E rg \in ReducedGates :
          /\ Range(rg.original_gate.c) \cap global_qubits_set # {}
          /\ rg.c # <<>>
          /\ rg.t[1] < rg.original_gate.t[1]

(***************************************************************************)
(* The waves against the queue they were built from.                       *)
(***************************************************************************)
\* the number of special waves among the first w waves
SpecialIndex(w) == Cardinality({v \in 1..w : dqueues[v] = <<>>})

\* what wave w holds: its entry of the special queue, or the gates its lists were
\* made from, read off the list of the last piece, to which no control denies a gate
WaveSources(w) ==
    IF dqueues[w] = <<>>
    THEN IF SpecialIndex(w) <= Len(special_queue)
         THEN <<special_queue[SpecialIndex(w)]>> ELSE <<>>
    ELSE [k \in 1..Len(dqueues[w][ndevices]) |-> dqueues[w][ndevices][k].original_gate]

RECURSIVE Concatenated(_)
Concatenated(w) == IF w = 0 THEN <<>> ELSE Concatenated(w - 1) \o WaveSources(w)

\* a wave entry stands for a gate of the queue
StandsFor(entry, gate) ==
    IF entry.kind = "pair"
    THEN /\ gate.kind = "SWAP"
         /\ Range(gate.t) = Range(entry.t)
         /\ GlobalTargets(gate) = {entry.t[1]}
    ELSE entry = gate

\* C22: once the waves are built from a queue, the waves taken in order hold the gates
\* of the queue in the order of the queue, a gate without targets or a SWAP with a
\* global target alone in a special wave and every other gate in a non-special wave;
\* no non-special wave follows another; the list of each piece holds gates of its wave
\* in the order of the queue.
C22_WavesKeepTheQueueOrder ==
    pc = "cast" =>
        LET q == ghost.transformed_queue
            all == Concatenated(Len(dqueues))
        IN  /\ Len(all) = Len(q)
            /\ \A k \in 1..Len(q) : StandsFor(all[k], q[k])
            /\ SpecialIndex(Len(dqueues)) =
                  Cardinality({k \in 1..Len(q) : q[k].t = <<>> \/ GlobalTargets(q[k]) # {}})
            /\ SpecialIndex(Len(dqueues)) = Len(special_queue)
            /\ \A w \in 1..(Len(dqueues) - 1) : dqueues[w] = <<>> \/ dqueues[w + 1] = <<>>
            /\ \A w \in 1..Len(dqueues) :
                  dqueues[w] # <<>> =>
                      /\ Len(dqueues[w]) = ndevices
                      /\ dqueues[w][ndevices] # <<>>
                      /\ \A k \in 1..Len(dqueues[w][ndevices]) :
                            LET g == dqueues[w][ndevices][k].original_gate
                            IN  g.t # <<>> /\ GlobalTargets(g) = {}
                      /\ \A i \in 1..ndevices :
                            SameOrderAs(InputIds(dqueues[w][i]), InputIds(dqueues[w][ndevices]))

\* waves built from a queue with a callback, a global swap and two gates in a row that
\* share a wave
C22_Witness ==
    /\ pc = "cast"
    /\ \E k \in 1..Len(special_queue) : special_queue[k].kind = "pair"
    /\ \E k \in 1..Len(special_queue) : special_queue[k].kind = "Callback"
    /\ \E w \in 1..Len(dqueues) : dqueues[w] # <<>> /\ Len(dqueues[w][ndevices]) >= 2
    /\ Len(dqueues) >= 4

(***************************************************************************)
(* Special waves and the special queue.                                    *)
(***************************************************************************)
\* the special waves passed and the entries consumed agree
InStep ==
    /\ pc \in {"cast", "waves", "dispatch"} =>
          SpecialIndex(Len(dqueues)) = Len(special_queue)
    /\ pc \in {"waves", "dispatch"} => special_pos = SpecialIndex(wave)

\* C23: a built plan has as many special waves as entries in its special queue; while
\* execute walks the waves it has consumed as many entries as it has passed special
\* waves, so the special step of a wave executes the entry of that wave's rank among
\* the special waves; and when the walk is over no entry is left, so that what follows
\* the walk executes nothing and execute returns.
C23_SpecialWavesMatchTheSpecialQueue ==
    [][/\ InStep'
       /\ SpecialStep =>
             /\ special_pos + 1 = SpecialIndex(wave + 1)
             /\ special_pos' = special_pos + 1
             /\ wave' = wave + 1
             /\ pc' = "waves"
       /\ Finish =>
             /\ special_pos = Len(special_queue)
             /\ pieces' = pieces
             /\ outcome' = "done"]_vars

\* execute has returned after a walk over waves of which two at least were special
C23_Witness ==
    /\ pc = "idle"
    /\ outcome = "done"
    /\ wave = Len(dqueues)
    /\ special_pos >= 2
    /\ special_pos = Len(special_queue)
    /\ \E k \in 1..Len(special_queue) : special_queue[k].kind = "Callback"

(***************************************************************************)
(* Swap partners.                                                          *)
(***************************************************************************)
\* the pairs a step of the transformer adds to swaps_list
NewPairs == SubSeq(swaps_list', Len(swaps_list) + 1, Len(swaps_list'))

\* C24: a walk that leaves gates deferred is followed by a reconfiguration, never by
\* a failure to find a partner; the reconfiguration records one pair for each global
\* target of the head deferred gate (one pair for a SWAP of two global qubits), each
\* pair made of one of those targets and a partner that is a local qubit and no target
\* of the head gate, with no target and no partner in two pairs.
C24_PartnersAreFreshLocals ==
    [][(TransformStep /\ Deferred # <<>>) =>
          LET head == Deferred[1]
              gt == GlobalTargets(head)
              np == NewPairs
              partner(k) == CHOOSE x \in {np[k][1], np[k][2]} : x \notin gt
              target(k) == CHOOSE x \in {np[k][1], np[k][2]} : x \in gt
          IN  /\ Reconfigures
              /\ Len(np) = IF head.kind = "SWAP" THEN 1 ELSE Cardinality(gt)
              /\ \A k \in 1..Len(np) :
                    /\ Cardinality({np[k][1], np[k][2]} \cap gt) = 1
                    /\ partner(k) \notin global_qubits_set
                    /\ partner(k) \notin Range(head.t)
              /\ \A j, k \in 1..Len(np) :
                    j # k => partner(j) # partner(k) /\ target(j) # target(k)]_vars

\* a reconfiguration has just put two pairs on the swap list for one head gate
C24_Witness ==
    /\ pc = "transform"
    /\ ghost.reconfigurations = 1
    /\ Len(swaps_list) = 2
    /\ remaining_queue # <<>>
    /\ Len(remaining_queue[1].t) = 2
    /\ remaining_queue[1].kind # "SWAP"

(***************************************************************************)
(* The counter during planning.                                            *)
(***************************************************************************)
\* the number of gates still to be walked whose targets contain q
Pending(q) ==
    Cardinality({k \in 1..Len(remaining_queue) :
                    \E j \in 1..Len(remaining_queue[k].t) : remaining_queue[k].t[j] = q})

\* C25: whenever a walk of the transformer is about to start, the first one and the
\* one after each reconfiguration, the counter of each qubit is the number of gates
\* still to be walked that target it; no counter is ever negative; and when the
\* transformer has returned every counter is zero.
C25_CounterCountsPendingGates ==
    /\ \A q \in DOMAIN counter : counter[q] >= 0
    /\ pc = "transform" =>
          /\ DOMAIN counter = AllQubits
          /\ \A q \in AllQubits : counter[q] = Pending(q)
    /\ pc \in {"tail", "cast"} =>
          \A q \in AllQubits : counter[q] = 0

\* a walk is about to start after a reconfiguration, with two gates left and a qubit
\* that two of them target
C25_Witness ==
    /\ pc = "transform"
    /\ ghost.reconfigurations >= 1
    /\ Len(remaining_queue) >= 2
    /\ \E q \in AllQubits : counter[q] >= 2
    /\ \E q \in AllQubits : counter[q] = 0

(***************************************************************************)
(* Arguments of the swap engine.                                           *)
(***************************************************************************)
\* lines 493-494: the order in which _revert_swaps hands a pair to _swap
AsGlobalLocal(p) == IF p[1] \notin global_qubits_set THEN <<p[2], p[1]>> ELSE p

\* the arguments of the calls of _swap that the step of a special-queue entry makes:
\* one for a global swap; for a gate, its snapshot reverted last pair first and then
\* redone
SwapArguments(entry) ==
    IF entry.kind = "pair" THEN <<entry.t>>
    ELSE [k \in 1..Len(entry.swap_reset) |-> AsGlobalLocal(Reverse(entry.swap_reset)[k])]
         \o [k \in 1..Len(entry.swap_reset) |-> AsGlobalLocal(entry.swap_reset[k])]

\* every recorded pair is (low, high) with one global id
PairsOrdered ==
    \A k \in 1..Len(swaps_list) :
        /\ swaps_list[k][1] < swaps_list[k][2]
        /\ Cardinality({swaps_list[k][1], swaps_list[k][2]} \cap global_qubits_set) = 1

\* C26: every pair on the swap list is (low, high) with low < high and one of the two
\* ids global; and every call of _swap made by a special step, for a global swap, for
\* the revert of a snapshot or for its redo, gets a global qubit first and a local
\* qubit second.
C26_SwapGetsGlobalThenLocal ==
    [][/\ PairsOrdered'
       /\ (SpecialStep /\ special_pos < Len(special_queue)) =>
             LET args == SwapArguments(special_queue[special_pos + 1])
             IN  \A k \in 1..Len(args) :
                     /\ args[k][1] \in global_qubits_set
                     /\ args[k][2] \in AllQubits \ global_qubits_set]_vars

\* a special step has just reverted and redone a snapshot with a pair whose lower id
\* is the local one, after a global swap of its own wave
C26_Witness ==
    /\ pc = "waves"
    /\ special_pos >= 2
    /\ special_queue[special_pos].kind = "Callback"
    /\ \E k \in 1..Len(special_queue[special_pos].swap_reset) :
          special_queue[special_pos].swap_reset[k][1] \notin global_qubits_set
    /\ \E k \in 1..(special_pos - 1) : special_queue[k].kind = "pair"

(***************************************************************************)
(* The default initial state.                                              *)
(***************************************************************************)
\* piece 0 is the ground-state piece and every other piece is zero
GroundState ==
    /\ Len(pieces) = ndevices
    /\ \A i \in 1..ndevices :
          /\ Len(pieces[i]) = Pow2(nlocal)
          /\ \A j \in 1..Pow2(nlocal) : pieces[i][j] = IF i = 1 /\ j = 1 THEN 1 ELSE 0

\* C27: each execute that is given no initial state, a first one or a later one, is
\* about to start its first wave with the ground-state piece in piece 0 and zeros in
\* every other piece, whatever the pieces held before.
C27_DefaultStateIsFresh ==
    (pc = "waves" /\ wave = 0 /\ initial_state = "none") => GroundState

\* a second execute without initial state is about to start its first wave, the first
\* execute having moved the amplitude out of address 0
C27_Witness ==
    /\ pc = "waves"
    /\ wave = 0
    /\ initial_state = "none"
    /\ ghost.runs = 2
    /\ ghost.final_state # <<>>
    /\ ghost.final_state[1] = 0
    /\ \E a \in 1..Len(ghost.final_state) : ghost.final_state[a] = 1

(***************************************************************************)
(* Queues that need no swap.                                               *)
(***************************************************************************)
\* the same gates in the same order, snapshots aside
SameGates(a, b) ==
    /\ Len(a) = Len(b)
    /\ \A k \in 1..Len(a) :
          a[k].id = b[k].id /\ a[k].kind = b[k].kind /\ a[k].t = b[k].t /\ a[k].c = b[k].c

\* C28: when no gate of the planned queue has a global target, SWAPs with one global
\* target aside, the first walk of the transformer accepts every gate in order and
\* inserts nothing, and transform returns the gates of that queue in their order and
\* nothing else: no SWAP is inserted, the swap list is empty and no tail is appended.
C28_NormalizedQueueIsReturnedAsIs ==
    [][/\ (TransformStep /\ tr_queue = <<>> /\ ghost.reconfigurations = 0
            /\ SwapNormalized(remaining_queue)) =>
             /\ pc' = "tail"
             /\ SameGates(tr_queue', remaining_queue)
             /\ swaps_list' = swaps_list
       /\ (FinishPlan /\ SwapNormalized(ghost.plan_input)) =>
             /\ SameGates(ghost'.transformed_queue, ghost.plan_input)
             /\ swaps_list = <<>>
             /\ ghost.reconfigurations = 0
             /\ tr_queue = ghost'.transformed_queue]_vars

\* a plan was made without any swap for a queue that has a SWAP with one global
\* target, a gate with a global control and a gate after them
C28_Witness ==
    /\ pc = "cast"
    /\ SwapNormalized(ghost.plan_input)
    /\ SameGates(ghost.transformed_queue, ghost.plan_input)
    /\ swaps_list = <<>>
    /\ Len(ghost.plan_input) >= 3
    /\ \E k \in 1..(Len(ghost.plan_input) - 1) :
          /\ ghost.plan_input[k].kind = "SWAP"
          /\ Cardinality(GlobalTargets(ghost.plan_input[k])) = 1
    /\ \E k \in 1..Len(ghost.plan_input) :
          Range(ghost.plan_input[k].c) \cap global_qubits_set # {}

(***************************************************************************)
(* Out of memory while a wave is dispatched.                               *)
(***************************************************************************)
\* execute has raised the RuntimeError of lines 554-557
Aborted == pc = "idle" /\ outcome = "ResourceExhausted"

\* the pieces a handler that restored the start of the wave would leave
PiecesRolledBack(ps, start) == start

\* lines 552-557: the handler of the out-of-memory error only raises the
\* RuntimeError; the pieces stay as the jobs have left them
PiecesAfterOom(ps, start) == ps

\* lines 471 and 552-557: the kernel of device d reports out-of-memory on the
\* job's next piece; the job returns by raising, the pool call re-raises in the
\* caller and execute converts the error to a RuntimeError
KernelFails(d) ==
    /\ pc = "dispatch"
    /\ jobs[d].pos < Len(device_to_ids[d])
    /\ ~jobs[d].holding
    /\ jobs' = [jobs EXCEPT ![d].pos = Len(device_to_ids[d])]
    /\ pieces' = PiecesAfterOom(pieces, ghost.wave_start)
    /\ pc' = "idle"
    /\ outcome' = "ResourceExhausted"
    /\ UNCHANGED <<nqubits, calc_devices, queue, has_queues, global_qubits_set, swaps_list,
                   dqueues, special_queue, tr_queue, remaining_queue, counter, wave,
                   special_pos, initial_state, ghost>>

\* line 471 in a thread that is still running after the pool call has raised: the
\* threads of the pool are not stopped by the error of another thread (followed
\* until the next call on the circuit)
StragglerExecute(d) ==
    /\ Aborted
    /\ d \in DOMAIN jobs
    /\ jobs[d].pos < Len(device_to_ids[d])
    /\ ~jobs[d].holding
    /\ LET i == device_to_ids[d][jobs[d].pos + 1]
       IN  jobs' = [jobs EXCEPT ![d].holding = TRUE,
                                ![d].state = DeviceExecute(pieces[i + 1],
                                                           dqueues[wave + 1][i + 1])]
    /\ UNCHANGED <<nqubits, calc_devices, queue, has_queues, global_qubits_set, swaps_list,
                   dqueues, special_queue, pieces, pc, tr_queue, remaining_queue, counter,
                   wave, special_pos, initial_state, outcome, ghost>>

\* line 472 in a thread that is still running after the pool call has raised
StragglerAssign(d) ==
    /\ Aborted
    /\ d \in DOMAIN jobs
    /\ jobs[d].holding
    /\ LET i == device_to_ids[d][jobs[d].pos + 1]
       IN  pieces' = [pieces EXCEPT ![i + 1] = jobs[d].state]
    /\ jobs' = [jobs EXCEPT ![d].holding = FALSE, ![d].state = <<>>, ![d].pos = @ + 1]
    /\ UNCHANGED <<nqubits, calc_devices, queue, has_queues, global_qubits_set, swaps_list,
                   dqueues, special_queue, pc, tr_queue, remaining_queue, counter, wave,
                   special_pos, initial_state, outcome, ghost>>

\* circuits of admissible gates, planned and executed on devices whose kernels can
\* run out of memory
NextOom ==
    \/ Next
    \/ \E d \in DOMAIN jobs : KernelFails(d)
    \/ \E d \in DOMAIN jobs : StragglerExecute(d)
    \/ \E d \in DOMAIN jobs : StragglerAssign(d)

SpecOom == Init /\ [][NextOom]_vars

\* the part of the state that only a wave, a special step or the end of execute
\* changes
Progress == <<wave, special_pos, ghost.final_state, ghost.callback_state>>

\* C29: when a kernel reports out-of-memory in wave k, execute ends with the fatal
\* error and no result, the pieces are left as the jobs of wave k and the earlier
\* steps have written them, and until execute is called again no wave and no special
\* step starts: only jobs of wave k that were already running may still write their
\* pieces.
C29_OutOfMemoryAbortsWithoutRollback ==
    [][ /\ (\E d \in DOMAIN jobs : KernelFails(d)) =>
               /\ Aborted'
               /\ pieces' = pieces
               /\ Progress' = Progress
               /\ ghost'.final_state = <<>>
        /\ Aborted /\ ~Execute =>
               /\ pc' = "idle"
               /\ outcome' # "done"
               /\ Progress' = Progress
               /\ ~(Dispatch \/ SpecialStep \/ Finish \/ Join)
               /\ pieces' # pieces => \E d \in DOMAIN jobs : StragglerAssign(d)
      ]_vars

\* a kernel has failed in the second of at least three waves, after another job of
\* that wave had already written its piece
C29_Witness ==
    /\ Aborted
    /\ wave >= 1
    /\ wave + 1 < Len(dqueues)
    /\ pieces # ghost.wave_start
    /\ \A d \in DOMAIN jobs : ~jobs[d].holding /\ jobs[d].pos \in {0, Len(device_to_ids[d])}

=============================================================================
